---- MODULE Spec2Model ----
(***************************************************************************)
(* Runtime loader for remote ESM modules (src/src/index.ts).               *)
(*                                                                         *)
(* loadRemoteModules fetches a manifest, and for every reference attaches  *)
(* the stylesheets, resolves the entry (resolveEntry), imports the bundle, *)
(* validates it, merges its locales (mergeLocales / expandDottedKeys),     *)
(* registers its routes and calls its install hook.  Every await and every *)
(* call that can raise is one step of the state machine below.             *)
(***************************************************************************)
EXTENDS Integers, Sequences, FiniteSets, TLC

(***************************************************************************)
(* Bounds of the model.                                                    *)
(***************************************************************************)
\* longest manifest handed to one pass
MaxEntries == 2

(***************************************************************************)
(* Strings that are used as URLs.                                          *)
(*                                                                         *)
(* A string is kept in parsed form: org is the part up to and including    *)
(* the authority ("" for a relative reference), root says whether the path *)
(* starts with "/", path is the list of its segments and slash whether it  *)
(* ends with "/".  Absent is the empty string; the loader only ever tests  *)
(* these fields for truthiness, so undefined and "" behave alike.          *)
(***************************************************************************)
Str(org, root, path, slash) ==
    [org |-> org, root |-> root, path |-> path, slash |-> slash]

Absent == Str("", FALSE, <<>>, FALSE)

Truthy(s) == s # Absent

\* "http://": matches /^https?:\/\//i but has no host, so new URL() rejects it
BrokenOrg == "http://"

BrokenUrl == Str(BrokenOrg, FALSE, <<>>, FALSE)

\* window.location.origin
WindowOrigin == Str("https://host.example", TRUE, <<>>, TRUE)

\* "/modules/admin/1.0.0/"
RelBase == Str("", TRUE, <<"modules", "admin", "1.0.0">>, TRUE)

\* "/modules/admin/1.0.0" (no trailing slash: the last segment is a file)
RelBaseFile == Str("", TRUE, <<"modules", "admin", "1.0.0">>, FALSE)

\* "HTTPS://CDN.EXAMPLE/admin/" (absolute, not in normal form)
AbsBase == Str("HTTPS://CDN.EXAMPLE", TRUE, <<"admin">>, TRUE)

\* "index.js"
RelEntry == Str("", FALSE, <<"index.js">>, FALSE)

\* "HTTPS://CDN.EXAMPLE/admin/index.js" (a full address, not in normal form)
HttpEntry == Str("HTTPS://CDN.EXAMPLE", TRUE, <<"admin", "index.js">>, FALSE)

\* "/src/modules/admin/src/public-entry.ts"
DevEntry == Str("", TRUE, <<"src", "modules", "admin", "src", "public-entry.ts">>, FALSE)

\* "@org/module-admin"
BareSpec == Str("", FALSE, <<"@org", "module-admin">>, FALSE)

\* "https://esm.sh/@org/module-admin@1.2.3"
HttpSpec == Str("https://esm.sh", TRUE, <<"@org", "module-admin@1.2.3">>, FALSE)

\* "file:///mods/admin.js" (absolute, but not http(s))
FileSpec == Str("file://", TRUE, <<"mods", "admin.js">>, FALSE)

\* "style.css"
StyleCss == Str("", FALSE, <<"style.css">>, FALSE)

\* "theme.css"
ThemeCss == Str("", FALSE, <<"theme.css">>, FALSE)

\* the test /^https?:\/\//i of resolveEntry
IsHttp(s) ==
    s.org \in {"http://", "https://host.example", "https://esm.sh",
               "https://cdn.example", "HTTPS://CDN.EXAMPLE"}

\* scheme and host in lower case, as URL.toString() prints them
Lower(org) == IF org = "HTTPS://CDN.EXAMPLE" THEN "https://cdn.example" ELSE org

Ok(v) == [ok |-> TRUE, v |-> v]

Raise == [ok |-> FALSE, v |-> Absent]

Front(q) == SubSeq(q, 1, Len(q) - 1)

\* new URL(s).toString(): s must be absolute and have a host
NewURL(s) ==
    IF s.org \notin {"", BrokenOrg}
    THEN Ok(Str(Lower(s.org), TRUE, s.path, s.slash \/ s.path = <<>>))
    ELSE Raise

\* the directory of a parsed URL: everything up to the last "/"
Dir(base) == IF base.slash THEN base.path ELSE Front(base.path)

\* new URL(s, base).toString() for a base that is an absolute URL
NewURLBase(s, base) ==
    IF s.org # "" THEN NewURL(s)
    ELSE IF s = Absent THEN Ok(base)
    ELSE IF s.root THEN Ok(Str(base.org, TRUE, s.path, s.slash))
    ELSE Ok(Str(base.org, TRUE, Dir(base) \o s.path, s.slash))

toAbsoluteBase(base) ==
    IF ~Truthy(base) THEN Ok(base)
    ELSE IF NewURL(base).ok THEN NewURL(base)
    ELSE NewURLBase(base, WindowOrigin)

(***************************************************************************)
(* Options with a default: "undef" stands for an option that is not set.   *)
(***************************************************************************)
Tri == {"undef", "true", "false"}

\* x ?? d
Nullish(x, d) == IF x = "undef" THEN d ELSE x = "true"

(***************************************************************************)
(* Manifest references (RemoteModuleRef).                                  *)
(***************************************************************************)
Ref(name, baseUrl, entry, styles, entryDev, spec, prefer) ==
    [name |-> name, baseUrl |-> baseUrl, entry |-> entry, styles |-> styles,
     entryDev |-> entryDev, spec |-> spec, prefer |-> prefer, isNull |-> FALSE]

\* a manifest entry that is the JSON value null
NullRef ==
    [name |-> "", baseUrl |-> Absent, entry |-> Absent, styles |-> <<>>,
     entryDev |-> Absent, spec |-> Absent, prefer |-> "undef", isNull |-> TRUE]

(***************************************************************************)
(* resolveEntry.  rs is what options.resolveSpecifier(ref.spec) settles to *)
(* if it is called; asked tells whether it was called.                     *)
(***************************************************************************)
Entry(kind, source, asked) ==
    [status |-> "ok", kind |-> kind, source |-> source, asked |-> asked]

NoEntry == [status |-> "none", kind |-> "none", source |-> Absent, asked |-> FALSE]

EntryRaise(asked) ==
    [status |-> "raise", kind |-> "none", source |-> Absent, asked |-> asked]

\* the options loadRemoteModules hands to resolveEntry
ResolveOpts(opt, prod) ==
    [preferDev |-> Nullish(opt.preferDevEntries, ~prod),
     allowDev |-> opt.allowDevEntryInProd,
     resolveSpecifier |-> opt.resolveSpecifier]

canDev(ref, opts) ==
    LET wantsDev == opts.preferDev /\ Truthy(ref.entryDev)
    IN  wantsDev /\ Nullish(opts.allowDev, TRUE)

urlEntry(ref) ==
    LET absBase == toAbsoluteBase(ref.baseUrl)
        source == IF ~absBase.ok THEN Raise
                  ELSE IF IsHttp(ref.entry) THEN Ok(ref.entry)
                  ELSE NewURLBase(ref.entry, absBase.v)
    IN  IF source.ok THEN Entry("url", source.v, FALSE) ELSE EntryRaise(FALSE)

\* specEntry without the test for a full http(s) address
specEntryAlwaysAsks(ref, opts, rs) ==
    IF opts.resolveSpecifier
    THEN IF rs.ok THEN Entry("spec", rs.v, TRUE) ELSE EntryRaise(TRUE)
    ELSE Entry("spec", ref.spec, FALSE)

specEntry(ref, opts, rs) ==
    IF IsHttp(ref.spec) THEN Entry("spec", ref.spec, FALSE)
    ELSE IF opts.resolveSpecifier
    THEN IF rs.ok THEN Entry("spec", rs.v, TRUE) ELSE EntryRaise(TRUE)
    ELSE Entry("spec", ref.spec, FALSE)

\* resolveEntry with the first two tests in the wrong order
resolveEntryUrlFirst(ref, opts, rs) ==
    IF Truthy(ref.baseUrl) /\ Truthy(ref.entry) THEN urlEntry(ref)
    ELSE IF canDev(ref, opts) /\ Truthy(ref.entryDev)
    THEN Entry("dev", ref.entryDev, FALSE)
    ELSE IF Truthy(ref.spec) THEN specEntry(ref, opts, rs)
    ELSE NoEntry

resolveEntry(ref, opts, rs) ==
    IF canDev(ref, opts) /\ Truthy(ref.entryDev)
    THEN Entry("dev", ref.entryDev, FALSE)
    ELSE IF Truthy(ref.baseUrl) /\ Truthy(ref.entry) THEN urlEntry(ref)
    ELSE IF Truthy(ref.spec) THEN specEntry(ref, opts, rs)
    ELSE NoEntry

\* whether resolveEntry awaits options.resolveSpecifier for this reference
asksResolver(ref, opts) ==
    resolveEntry(ref, opts, Ok(Absent)).asked

\* what a supplied resolveSpecifier(spec) may settle to: an address on a CDN
\* ("https://cdn.example/npm/<spec>/index.js"), or a rejection
ResolverOutcomes(spec) ==
    {Ok(Str("https://cdn.example", TRUE, <<"npm">> \o spec.path \o <<"index.js">>, FALSE)),
     Raise}

(***************************************************************************)
(* Locale trees.  A value is a string, an array, null or a mapping; a      *)
(* mapping keeps its entries in insertion order, as Object.entries reads   *)
(* them.  A key is the list of its dot separated segments, so "a.b" is     *)
(* <<"a", "b">> and a key without a dot has one segment.                   *)
(***************************************************************************)
VStr(s) == [t |-> "str", s |-> s, e |-> <<>>]

VArr == [t |-> "arr", s |-> "", e |-> <<>>]

VNull == [t |-> "null", s |-> "", e |-> <<>>]

VObj(e) == [t |-> "obj", s |-> "", e |-> e]

Undefined == [t |-> "undef", s |-> "", e |-> <<>>]

KV(k, v) == [k |-> k, v |-> v]

Has(obj, key) == \E i \in 1..Len(obj.e) : obj.e[i].k = key

Get(obj, key) ==
    IF Has(obj, key)
    THEN obj.e[CHOOSE i \in 1..Len(obj.e) : obj.e[i].k = key].v
    ELSE Undefined

\* obj[key] = v: an existing key keeps its place, a new one goes last
Set(obj, key, v) ==
    IF Has(obj, key)
    THEN VObj([i \in 1..Len(obj.e) |->
                  IF obj.e[i].k = key THEN KV(key, v) ELSE obj.e[i]])
    ELSE VObj(Append(obj.e, KV(key, v)))

\* JavaScript truthiness of a locale value
isTruthy(v) == v.t \in {"obj", "arr"} \/ (v.t = "str" /\ v.s # "")

\* value && typeof value === "object" && !Array.isArray(value)
isPlainObject(v) == v.t = "obj"

OkV(v) == [ok |-> TRUE, v |-> v]

RaiseV == [ok |-> FALSE, v |-> Undefined]

RECURSIVE expandDottedKeys(_)
RECURSIVE expandEntries(_, _)
RECURSIVE setPath(_, _, _)

\* the value stored at the last segment of a key, or under a key without dot
expandValue(value) ==
    IF isPlainObject(value) THEN expandDottedKeys(value) ELSE OkV(value)

\* the inner loop over the segments of one dotted key, cur being a mapping
setPath(cur, segs, value) ==
    LET seg == <<Head(segs)>>
    IN  IF Len(segs) = 1
        THEN LET x == expandValue(value)
             IN  IF x.ok THEN OkV(Set(cur, seg, x.v)) ELSE RaiseV
        ELSE LET old == Get(cur, seg)
                 nxt == IF isTruthy(old) THEN old ELSE VObj(<<>>)
             IN  IF nxt.t = "obj"
                 THEN LET r == setPath(nxt, Tail(segs), value)
                      IN  IF r.ok THEN OkV(Set(cur, seg, r.v)) ELSE RaiseV
                 ELSE IF nxt.t = "arr"
                 \* the remaining segments become properties of the array
                 THEN IF expandValue(value).ok THEN OkV(cur) ELSE RaiseV
                 \* a property of a primitive cannot be created (strict mode)
                 ELSE RaiseV

putEntry(result, kv) ==
    IF Len(kv.k) > 1 THEN setPath(result, kv.k, kv.v)
    ELSE LET x == expandValue(kv.v)
         IN  IF x.ok THEN OkV(Set(result, kv.k, x.v)) ELSE RaiseV

expandEntries(es, acc) ==
    IF es = <<>> \/ ~acc.ok THEN acc
    ELSE expandEntries(Tail(es), putEntry(acc.v, Head(es)))

expandDottedKeys(obj) ==
    IF obj.t = "null" THEN RaiseV      \* Object.entries(null)
    ELSE expandEntries(obj.e, OkV(VObj(<<>>)))

(***************************************************************************)
(* The locale store (i18n.global): language -> messages.                   *)
(* mergeLocaleMessage is vue-i18n's: a deep merge of mappings, any other   *)
(* value replaces what was there.                                          *)
(***************************************************************************)
RECURSIVE deepMerge(_, _)
RECURSIVE deepMergeEntries(_, _)

deepMergeEntries(des, es) ==
    IF es = <<>> THEN des
    ELSE LET kv == Head(es)
             old == Get(des, kv.k)
             new == IF isPlainObject(kv.v)
                    THEN deepMerge(IF isPlainObject(old) THEN old ELSE VObj(<<>>), kv.v)
                    ELSE kv.v
         IN  deepMergeEntries(Set(des, kv.k, new), Tail(es))

deepMerge(des, src) == deepMergeEntries(des, src.e)

mergeLocaleMessage(store, lang, message) ==
    LET old == Get(store, lang)
        cur == IF isPlainObject(old) THEN old ELSE VObj(<<>>)
    IN  Set(store, lang, IF isPlainObject(message) THEN deepMerge(cur, message) ELSE cur)

(***************************************************************************)
(* mergeLocales.  A namespace is a string; NsUndefined and NsNull stand    *)
(* for undefined and null.                                                 *)
(***************************************************************************)
NsUndefined == "<undefined>"

NsNull == "<null>"

\* k.startsWith("__")
isMetaKey(k) == Head(k) \in {"__meta", "__v"}

\* namespace && typeof namespace === "string"
isNamedNamespace(namespace) == namespace \notin {NsUndefined, NsNull, ""}

\* normalizeLocale that never unwraps
normalizeLocaleAsIs(namespace, raw) == raw

normalizeLocale(namespace, raw) ==
    LET hasOnlyNsAndMeta ==
            /\ Has(raw, <<namespace>>)
            /\ \A i \in 1..Len(raw.e) :
                   raw.e[i].k = <<namespace>> \/ isMetaKey(raw.e[i].k)
    IN  IF isNamedNamespace(namespace) /\ hasOnlyNsAndMeta
        THEN Get(raw, <<namespace>>)
        ELSE raw

\* one turn of the loop over the languages: [ok, v] with v the store after it
mergeLocale(store, namespace, lang, msgs) ==
    LET raw == IF msgs.t \in {"obj", "arr"} THEN msgs ELSE VObj(<<>>)
        normalized == normalizeLocale(namespace, raw)
        expanded == IF normalized.t \in {"obj", "arr", "null"}
                    THEN expandDottedKeys(normalized)
                    ELSE OkV(normalized)
    IN  IF ~expanded.ok THEN [ok |-> FALSE, v |-> store]
        ELSE IF ~isNamedNamespace(namespace)
        THEN OkV(mergeLocaleMessage(store, lang, expanded.v))
        ELSE OkV(mergeLocaleMessage(store, lang,
                                    VObj(<<KV(<<namespace>>, expanded.v)>>)))

RECURSIVE mergeLocaleEntries(_, _, _)

mergeLocaleEntries(acc, namespace, es) ==
    IF es = <<>> \/ ~acc.ok THEN acc
    ELSE mergeLocaleEntries(
             mergeLocale(acc.v, namespace, Head(es).k, Head(es).v),
             namespace, Tail(es))

\* mergeLocales that merges nothing
mergeLocalesDropped(store, namespace, locales) == OkV(store)

\* the store after mergeLocales, and whether it returned (ok) or raised; a
\* raise leaves the languages merged before it in the store
mergeLocales(store, namespace, locales) ==
    mergeLocaleEntries(OkV(store), namespace,
                       IF locales.t \in {"obj", "arr"} THEN locales.e ELSE <<>>)

(***************************************************************************)
(* The host router (vue-router): the registered route records, in the      *)
(* order they were added.  A route with no name has name "".               *)
(***************************************************************************)
Route(name, path, children) == [name |-> name, path |-> path, children |-> children]

\* a record of the route table; parent is the name of the route the record
\* is a child of, "" for a top-level route
ChildRec(name, path, parent) == [name |-> name, path |-> path, parent |-> parent]

Rec(name, path) == ChildRec(name, path, "")

\* router.hasRoute(name)
hasRoute(router, name) == \E i \in 1..Len(router) : router[i].name = name

routerHasPath(router, path) == \E i \in 1..Len(router) : router[i].path = path

\* top-level paths the router refuses ("Route paths should start with a /")
BadPaths == {"admin"}

\* router.removeRoute(name): the route of that name goes, and its children
\* with it
removeRoute(router, name) ==
    IF name = "" THEN router
    ELSE SelectSeq(router, LAMBDA r : r.name # name /\ r.parent # name)

\* a router that registers no children
noChildRecords(router, parent, children) == router

RECURSIVE childRecords(_, _, _)

\* the table after the children of a route were registered, one after the
\* other: each replaces the registered route of its name, and its path is
\* joined to the path of its parent
childRecords(router, parent, children) ==
    IF children = <<>> THEN router
    ELSE childRecords(
             removeRoute(router, Head(children).name)
                 \o <<ChildRec(Head(children).name,
                               IF Head(children).path = "" THEN parent.path
                               ELSE parent.path \o "/" \o Head(children).path,
                               parent.name)>>,
             parent, Tail(children))

\* addRoute that registers nothing
addRouteDropped(router, route) == [ok |-> TRUE, v |-> router]

\* router.addRoute(route): [ok, v]; the route replaces the registered route
\* of its name, if there is one, and so does each of its children
addRoute(router, route) ==
    IF route.path \in BadPaths THEN [ok |-> FALSE, v |-> router]
    ELSE [ok |-> TRUE,
          v |-> childRecords(removeRoute(router, route.name)
                                 \o <<Rec(route.name, route.path)>>,
                             route, route.children)]

(***************************************************************************)
(* Bundles (ModuleBundle) and what a dynamic import may settle to.         *)
(***************************************************************************)
Bundle(name, ns, locales, hasRoutes, routes, install) ==
    [name |-> name, i18nNamespace |-> ns, locales |-> locales,
     hasRoutes |-> hasRoutes, routes |-> routes, install |-> install]

NoBundle == Bundle("", NsUndefined, Undefined, FALSE, <<>>, FALSE)

\* the README's admin module: one named route, messages in two languages
AdminBundle ==
    Bundle("admin", NsUndefined,
           VObj(<<KV(<<"de">>, VObj(<<KV(<<"title">>, VStr("Verwaltung"))>>)),
                  KV(<<"en">>, VObj(<<KV(<<"nav", "home">>, VStr("Home"))>>))>>),
           TRUE, <<Route("admin-index", "/admin", <<>>)>>, TRUE)

\* neither locales nor routes nor install hook
PlainBundle == Bundle("users", NsUndefined, Undefined, FALSE, <<>>, FALSE)

\* the second language cannot be expanded: "a" holds a string when "a.b" comes
ShopBundle ==
    Bundle("shop", NsNull,
           VObj(<<KV(<<"de">>, VObj(<<KV(<<"cart">>, VStr("Korb"))>>)),
                  KV(<<"en">>, VObj(<<KV(<<"a">>, VStr("x")),
                                      KV(<<"a", "b">>, VStr("y"))>>))>>),
           FALSE, <<>>, FALSE)

\* the second route repeats the first, the third is refused by the router
BlogBundle ==
    Bundle("blog", "", VObj(<<KV(<<"en">>, VObj(<<KV(<<"blog">>, VStr("Blog"))>>))>>), TRUE,
           <<Route("blog-index", "/blog", <<Route("blog-post", "post", <<>>)>>),
             Route("blog-index", "/blog", <<>>),
             Route("blog-bad", "admin", <<>>)>>, TRUE)

\* a default export with an empty name
NamelessBundle == Bundle("", NsUndefined, Undefined, FALSE, <<>>, TRUE)

Bundles == {AdminBundle, PlainBundle, ShopBundle, BlogBundle, NamelessBundle}

Module(settles, hasDefault, default) ==
    [settles |-> settles, hasDefault |-> hasDefault, default |-> default]

\* import(source): rejects, or settles to a module with or without a default
Modules ==
    {Module(FALSE, FALSE, NoBundle), Module(TRUE, FALSE, NoBundle)}
    \cup {Module(TRUE, TRUE, b) : b \in Bundles}

\* !bundle || !bundle.name
invalidBundle(m) == ~m.hasDefault \/ m.default.name = ""

\* a caller-supplied i18nNamespaceStrategy function
NsFn(name) == "mod-" \o name

\* resolvedNamespace that calls the strategy whatever it is
resolvedNamespaceByFunction(b, nsStrategy) ==
    IF b.i18nNamespace # NsUndefined THEN b.i18nNamespace ELSE NsFn(b.name)

\* resolvedNamespace that takes null and "" for no namespace of its own
resolvedNamespaceIfTruthy(b, nsStrategy) ==
    IF isNamedNamespace(b.i18nNamespace) THEN b.i18nNamespace
    ELSE IF nsStrategy = "moduleName" THEN b.name
    ELSE NsFn(b.name)

resolvedNamespace(b, nsStrategy) ==
    IF b.i18nNamespace # NsUndefined THEN b.i18nNamespace
    ELSE IF nsStrategy = "moduleName" THEN b.name
    ELSE NsFn(b.name)

(***************************************************************************)
(* The inputs of one load pass.                                            *)
(***************************************************************************)
\* the README's manifest entry: a pre-built bundle with two stylesheets and
\* a development source beside it
AdminRef == Ref("admin", RelBase, RelEntry, <<StyleCss, ThemeCss>>, DevEntry, Absent, "undef")

\* a bare package specifier
ShopRef == Ref("shop", Absent, Absent, <<>>, Absent, BareSpec, "undef")

\* a base location and a stylesheet, but nothing to import
EmptyRef == Ref("empty", RelBase, Absent, <<StyleCss>>, Absent, Absent, "undef")

\* nothing to import either, and the second of three stylesheets is no URL
BrokenRef == Ref("broken", RelBase, Absent, <<StyleCss, BrokenUrl, ThemeCss>>, Absent, Absent, "undef")

ManifestRefs == {AdminRef, ShopRef, EmptyRef, BrokenRef, NullRef}

SeqsUpTo(S, n) == UNION {[1..k -> S] : k \in 0..n}

\* what response.json() yields: an array of references, or a JSON object
Parsed(iterable, items) == [iterable |-> iterable, items |-> items]

ManifestBodies ==
    {Parsed(TRUE, q) : q \in SeqsUpTo(ManifestRefs, MaxEntries)}
    \cup {Parsed(FALSE, <<>>)}

Options(preferDev, allowDev, resolver, guard, nsStrategy, onLoaded, onError, log, map) ==
    [preferDevEntries |-> preferDev, allowDevEntryInProd |-> allowDev,
     resolveSpecifier |-> resolver, guardDuplicateRoutes |-> guard,
     i18nNamespaceStrategy |-> nsStrategy, onModuleLoaded |-> onLoaded,
     onModuleError |-> onError, log |-> log, mapManifest |-> map]

\* the options of the passes that are run: resolveSpecifier is supplied (r)
\* or not, so are the two callbacks (c), log is a caller's function (l) or
\* the default one; mapManifest is absent, reverses the array, filters it, or throws
PassOptions ==
    {Options("undef", "undef", r, "name", "moduleName", c, c, l, "none") :
        r \in BOOLEAN, c \in BOOLEAN, l \in BOOLEAN}
    \cup {Options("undef", "undef", FALSE, "name", "moduleName", FALSE, FALSE, FALSE, m) :
            m \in {"reverse", "filter", "throws"}}

\* the routes and the messages of the host before the pass
HostRouter == <<Rec("home", "/")>>

HostStore == VObj(<<KV(<<"en">>, VObj(<<KV(<<"app">>, VStr("Host"))>>))>>)

(***************************************************************************)
(* The state of a pass of loadRemoteModules.                               *)
(***************************************************************************)
VARIABLES
    isProd,     \* import.meta.env.PROD
    options,    \* the ModuleLoaderOptions of the call
    body,       \* what the manifest holds
    pc,         \* the statement the pass is at
    fetched,    \* how the manifest fetch went
    refs,       \* the references to process
    idx,        \* the number of the reference in work (0: none yet)
    result,     \* the LoadResult under construction
    err,        \* the step whose exception is being handled
    doc,        \* the hrefs of the stylesheet links of the document
    imports,    \* the dynamic imports started so far
    entryInfo,  \* what resolveEntry returned for the reference in work
    settled,    \* what options.resolveSpecifier settled to for that reference
    bundle,     \* the bundle of the reference in work
    ridx,       \* the number of routes of that bundle dealt with
    router,     \* the records of the host router
    store,      \* the messages of the host's locale store
    calls,      \* the caller's callbacks and install hooks invoked so far
    outcome,    \* "pending", "returned" or "rejected"
    blobs,      \* the object URLs created and not revoked
    pass,       \* 1, or 2 when the caller runs the pass a second time
    first,      \* the route table and the locale store the first pass left
    served      \* the module each import settles to when that is fixed

vars == <<isProd, options, body, pc, fetched, refs, idx, result, err, doc,
          imports, entryInfo, settled, bundle, ridx, router, store, calls,
          outcome, blobs, pass, first, served>>

\* no first pass has ended
NoSnapshot == [router |-> <<>>, store |-> Undefined]

\* resolveSpecifier was not called
NotAsked == [called |-> FALSE, ok |-> FALSE, v |-> Absent]

Asked(rs) == [called |-> TRUE, ok |-> rs.ok, v |-> rs.v]

Init ==
    /\ isProd \in BOOLEAN
    /\ options \in PassOptions
    /\ body \in ManifestBodies
    /\ pc = "fetch"
    /\ fetched = "pending"
    /\ refs = Parsed(TRUE, <<>>)
    /\ idx = 0
    /\ result = [loaded |-> <<>>, errors |-> <<>>]
    /\ err = "none"
    /\ doc = <<>>
    /\ imports = <<>>
    /\ entryInfo = NoEntry
    /\ settled = NotAsked
    /\ bundle = NoBundle
    /\ ridx = 0
    /\ router = HostRouter
    /\ store = HostStore
    /\ calls = <<>>
    /\ outcome = "pending"
    /\ blobs = {}
    /\ pass = 1
    /\ first = NoSnapshot
    /\ served = <<>>

\* what a call of log(...) may do: the default log returns, a caller's
\* function returns or raises
LogOutcomes == IF options.log THEN {"returns", "raises"} ELSE {"returns"}

\* what a call of a caller's callback or hook may do
CallOutcomes == {"returns", "raises"}

Return == pc' = "done" /\ outcome' = "returned"

Reject == pc' = "done" /\ outcome' = "rejected"

\* the exception of step is caught by the try of the reference in work
Catch(step) == pc' = "catch" /\ err' = step

ref == refs.items[idx]

(***************************************************************************)
(* The manifest: fetch, parse, transform.                                  *)
(***************************************************************************)
\* the response is ok, has another status, the fetch rejects, or res.json()
\* rejects; an object URL made of JSON.stringify output is read or refused
FetchOutcomes ==
    IF blobs = {} THEN {"ok", "notok", "reject", "badjson"} ELSE {"ok", "reject"}

Fetch ==
    /\ pc = "fetch"
    /\ \E o \in FetchOutcomes :
        /\ fetched' = o
        /\ refs' = IF o = "ok" THEN body ELSE refs
        /\ pc' = IF o = "ok" THEN "map"
                 ELSE IF o = "notok" THEN "manifestWarn" ELSE "manifestCatch"
    /\ UNCHANGED <<blobs, pass, first, served, isProd, options, body, settled, idx, result, err, doc, imports,
                   entryInfo, bundle, ridx, router, store, calls, outcome>>

\* if (!res.ok) { log("warn", ...); return result }, inside the try
ManifestWarn ==
    /\ pc = "manifestWarn"
    /\ \E l \in LogOutcomes :
        IF l = "returns" THEN Return
        ELSE pc' = "manifestCatch" /\ outcome' = outcome
    /\ UNCHANGED <<blobs, pass, first, served, isProd, options, body, settled, fetched, refs, idx, result, err, doc,
                   imports, entryInfo, bundle, ridx, router, store, calls>>

\* catch (e) { log("error", ...); return result }
ManifestCatch ==
    /\ pc = "manifestCatch"
    /\ \E l \in LogOutcomes : IF l = "returns" THEN Return ELSE Reject
    /\ UNCHANGED <<blobs, pass, first, served, isProd, options, body, settled, fetched, refs, idx, result, err, doc,
                   imports, entryInfo, bundle, ridx, router, store, calls>>

\* a caller's transform: here one that reverses the list (refs.reverse())
mapManifest(r) ==
    IF r.iterable
    THEN [ok |-> TRUE,
          v |-> Parsed(TRUE, [i \in 1..Len(r.items) |-> r.items[Len(r.items) + 1 - i]])]
    ELSE [ok |-> FALSE, v |-> r]

\* a transform that returns its argument
keepManifest(r) == [ok |-> TRUE, v |-> r]

\* the README's transform, refs => refs.filter((r) => r.name !== "admin");
\* it raises on a value without filter and on a null entry
filterManifest(r) ==
    IF r.iterable /\ \A i \in 1..Len(r.items) : ~r.items[i].isNull
    THEN [ok |-> TRUE,
          v |-> Parsed(TRUE, SelectSeq(r.items, LAMBDA x : x.name # "admin"))]
    ELSE [ok |-> FALSE, v |-> r]

MapManifest ==
    /\ pc = "map"
    /\ IF options.mapManifest = "none"
       THEN pc' = "loop" /\ UNCHANGED <<refs, outcome>>
       ELSE IF options.mapManifest = "reverse" /\ mapManifest(refs).ok
       THEN pc' = "loop" /\ refs' = mapManifest(refs).v /\ UNCHANGED outcome
       ELSE IF options.mapManifest = "filter" /\ filterManifest(refs).ok
       THEN pc' = "loop" /\ refs' = filterManifest(refs).v /\ UNCHANGED outcome
       ELSE Reject /\ UNCHANGED refs
    /\ UNCHANGED <<blobs, pass, first, served, isProd, options, body, settled, fetched, idx, result, err, doc,
                   imports, entryInfo, bundle, ridx, router, store, calls>>

\* a loop that leaves out the first reference of a longer manifest
LoopSkipsOne ==
    /\ pc = "loop"
    /\ IF ~refs.iterable
       THEN Reject /\ UNCHANGED idx
       ELSE IF idx = Len(refs.items)
       THEN Return /\ UNCHANGED idx
       ELSE /\ pc' = "styles"
            /\ idx' = IF idx = 0 /\ Len(refs.items) > 1 THEN 2 ELSE idx + 1
            /\ UNCHANGED outcome
    /\ entryInfo' = NoEntry
    /\ settled' = NotAsked
    /\ bundle' = NoBundle
    /\ ridx' = 0
    /\ err' = "none"
    /\ UNCHANGED <<blobs, pass, first, served, isProd, options, body, fetched, refs, result, doc, imports,
                   router, store, calls>>

\* for (const ref of refs): the next reference, or the end of the pass
Loop ==
    /\ pc = "loop"
    /\ IF ~refs.iterable
       THEN Reject /\ UNCHANGED idx
       ELSE IF idx = Len(refs.items)
       THEN Return /\ UNCHANGED idx
       ELSE pc' = "styles" /\ idx' = idx + 1 /\ UNCHANGED outcome
    /\ entryInfo' = NoEntry
    /\ settled' = NotAsked
    /\ bundle' = NoBundle
    /\ ridx' = 0
    /\ err' = "none"
    /\ UNCHANGED <<blobs, pass, first, served, isProd, options, body, fetched, refs, result, doc, imports,
                   router, store, calls>>

(***************************************************************************)
(* One reference: the body of the loop, all of it inside one try.          *)
(***************************************************************************)
\* loadStyles that stops after the first stylesheet
loadStylesHeadOnly(links, styles, absBase) ==
    IF styles = <<>> THEN [ok |-> TRUE, v |-> links]
    ELSE LET href == NewURLBase(Head(styles), absBase)
         IN  IF href.ok THEN [ok |-> TRUE, v |-> Append(links, href.v)]
             ELSE [ok |-> FALSE, v |-> links]

RECURSIVE loadStyles(_, _, _)

\* loadCss(new URL(s, absBase).toString()) for every s: [ok, v] with v the
\* links of the document; the links attached before a raise stay attached
loadStyles(links, styles, absBase) ==
    IF styles = <<>> THEN [ok |-> TRUE, v |-> links]
    ELSE LET href == NewURLBase(Head(styles), absBase)
         IN  IF href.ok
             THEN loadStyles(Append(links, href.v), Tail(styles), absBase)
             ELSE [ok |-> FALSE, v |-> links]

\* 1) the stylesheets
Styles ==
    /\ pc = "styles"
    /\ IF ref.isNull
       THEN Catch("styles") /\ UNCHANGED doc
       ELSE IF Truthy(ref.baseUrl) /\ Len(ref.styles) > 0
       THEN LET absBase == toAbsoluteBase(ref.baseUrl)
                loaded == loadStyles(doc, ref.styles, absBase.v)
            IN  IF ~absBase.ok
                THEN Catch("styles") /\ UNCHANGED doc
                ELSE /\ doc' = loaded.v
                     /\ IF loaded.ok
                        THEN pc' = "resolve" /\ UNCHANGED err
                        ELSE Catch("styles")
       ELSE pc' = "resolve" /\ UNCHANGED <<doc, err>>
    /\ UNCHANGED <<blobs, pass, first, served, isProd, options, body, settled, fetched, refs, idx, result, imports,
                   entryInfo, bundle, ridx, router, store, calls, outcome>>

\* 2) await resolveEntry(ref, ...), and the warning of a reference without entry
Resolve ==
    /\ pc = "resolve"
    /\ LET opts == ResolveOpts(options, isProd)
       IN  \E rs \in IF asksResolver(ref, opts)
                     THEN ResolverOutcomes(ref.spec) ELSE {Raise} :
               LET e == resolveEntry(ref, opts, rs)
               IN  /\ entryInfo' = e
                   /\ settled' = IF e.asked THEN Asked(rs) ELSE NotAsked
                   /\ IF e.status = "raise"
                      THEN Catch("resolve")
                      ELSE /\ pc' = IF e.status = "ok" THEN "import" ELSE "skip"
                           /\ UNCHANGED err
    /\ UNCHANGED <<blobs, pass, first, served, isProd, options, body, fetched, refs, idx, result, doc,
                   imports, bundle, ridx, router, store, calls, outcome>>

\* if (!entryInfo) { log("warn", ...); continue }
Skip ==
    /\ pc = "skip"
    /\ \E l \in LogOutcomes :
        IF l = "returns" THEN pc' = "loop" /\ UNCHANGED err ELSE Catch("log")
    /\ UNCHANGED <<blobs, pass, first, served, isProd, options, body, settled, fetched, refs, idx, result, doc,
                   imports, entryInfo, bundle, ridx, router, store, calls, outcome>>

\* 3) import(entryInfo.source) starts
Import ==
    /\ pc = "import"
    /\ imports' = Append(imports, [ref |-> idx, source |-> entryInfo.source])
    /\ pc' = "importing"
    /\ UNCHANGED <<blobs, pass, first, served, isProd, options, body, settled, fetched, refs, idx, result, err, doc,
                   entryInfo, bundle, ridx, router, store, calls, outcome>>

\* what import(source) of the reference in work may settle to: any module,
\* or the one the host serves for it when that is fixed for both passes
ServedModules == IF served = <<>> THEN Modules ELSE {served[idx]}

\* the import settles, and the bundle is validated
Imported ==
    /\ pc = "importing"
    /\ \E m \in ServedModules :
        IF ~m.settles THEN Catch("import") /\ UNCHANGED bundle
        ELSE IF invalidBundle(m) THEN Catch("validate") /\ UNCHANGED bundle
        ELSE pc' = "locales" /\ bundle' = m.default /\ UNCHANGED err
    /\ UNCHANGED <<blobs, pass, first, served, isProd, options, body, settled, fetched, refs, idx, result, doc,
                   imports, entryInfo, ridx, router, store, calls, outcome>>

\* 4) the locales
Locales ==
    /\ pc = "locales"
    /\ LET namespace == resolvedNamespace(bundle, options.i18nNamespaceStrategy)
           merged == mergeLocales(store, namespace, bundle.locales)
       IN  IF isTruthy(bundle.locales)
           THEN /\ store' = merged.v
                /\ IF merged.ok THEN pc' = "routes" /\ UNCHANGED err
                   ELSE Catch("locales")
           ELSE pc' = "routes" /\ UNCHANGED <<store, err>>
    /\ UNCHANGED <<blobs, pass, first, served, isProd, options, body, settled, fetched, refs, idx, result, doc,
                   imports, entryInfo, bundle, ridx, router, calls, outcome>>

\* a guard that lets every route through
skipRouteNever(guard, rtr, route) == FALSE

\* whether the duplicate guard skips a route
skipRoute(guard, rtr, route) ==
    IF guard = "name"
    THEN \/ route.name # "" /\ hasRoute(rtr, route.name)
         \/ route.name = "" /\ route.path # "" /\ routerHasPath(rtr, route.path)
    ELSE IF guard = "path"
    THEN route.path # "" /\ routerHasPath(rtr, route.path)
    ELSE FALSE

\* 5) the routes, one turn of the loop per step
Routes ==
    /\ pc = "routes"
    /\ IF ~bundle.hasRoutes \/ ridx = Len(bundle.routes)
       THEN pc' = "install" /\ UNCHANGED <<ridx, router, err>>
       ELSE LET route == bundle.routes[ridx + 1]
                added == addRoute(router, route)
            IN  IF skipRoute(options.guardDuplicateRoutes, router, route)
                THEN /\ \E l \in LogOutcomes :
                          IF l = "returns"
                          THEN pc' = "routes" /\ ridx' = ridx + 1 /\ UNCHANGED err
                          ELSE Catch("log") /\ UNCHANGED ridx
                     /\ UNCHANGED router
                ELSE IF added.ok
                THEN /\ router' = added.v
                     /\ ridx' = ridx + 1
                     /\ pc' = "routes"
                     /\ UNCHANGED err
                ELSE Catch("routes") /\ UNCHANGED <<ridx, router>>
    /\ UNCHANGED <<blobs, pass, first, served, isProd, options, body, settled, fetched, refs, idx, result, doc,
                   imports, entryInfo, bundle, store, calls, outcome>>

Call(fn) == [fn |-> fn, ref |-> idx, router |-> router, store |-> store]

\* 6) bundle.install?.(ctx)
Install ==
    /\ pc = "install"
    /\ IF bundle.install
       THEN /\ calls' = Append(calls, Call("install"))
            /\ \E c \in CallOutcomes :
                 IF c = "returns" THEN pc' = "record" /\ UNCHANGED err
                 ELSE Catch("install")
       ELSE pc' = "record" /\ UNCHANGED <<calls, err>>
    /\ UNCHANGED <<blobs, pass, first, served, isProd, options, body, settled, fetched, refs, idx, result, doc,
                   imports, entryInfo, bundle, ridx, router, store, outcome>>

\* result.loaded.push(...); options.onModuleLoaded?.(bundle, ref)
Record ==
    /\ pc = "record"
    /\ result' = [result EXCEPT !.loaded =
                     Append(@, [ref |-> idx, bundle |-> bundle.name])]
    /\ IF options.onModuleLoaded
       THEN /\ calls' = Append(calls, Call("onModuleLoaded"))
            /\ \E c \in CallOutcomes :
                 IF c = "returns" THEN pc' = "info" /\ UNCHANGED err
                 ELSE Catch("onModuleLoaded")
       ELSE pc' = "info" /\ UNCHANGED <<calls, err>>
    /\ UNCHANGED <<blobs, pass, first, served, isProd, options, body, settled, fetched, refs, idx, doc, imports,
                   entryInfo, bundle, ridx, router, store, outcome>>

\* log("info", `loaded ...`), the last statement of the try
Info ==
    /\ pc = "info"
    /\ \E l \in LogOutcomes :
        IF l = "returns" THEN pc' = "loop" /\ UNCHANGED err ELSE Catch("log")
    /\ UNCHANGED <<blobs, pass, first, served, isProd, options, body, settled, fetched, refs, idx, result, doc,
                   imports, entryInfo, bundle, ridx, router, store, calls, outcome>>

\* catch (e) { result.errors.push(...); options.onModuleError?.(ref, e);
\* log("error", `... ${ref.name}@${ref.version}:`, e) }: nothing guards the
\* callback, the message (ref may be null) or the log
Caught ==
    /\ pc = "catch"
    /\ result' = [result EXCEPT !.errors = Append(@, [ref |-> idx, error |-> err])]
    /\ calls' = IF options.onModuleError
                THEN Append(calls, Call("onModuleError")) ELSE calls
    /\ \E c \in IF options.onModuleError THEN CallOutcomes ELSE {"returns"} :
       \E l \in LogOutcomes :
          IF c = "raises" \/ ref.isNull \/ l = "raises"
          THEN Reject
          ELSE pc' = "loop" /\ UNCHANGED outcome
    /\ UNCHANGED <<blobs, pass, first, served, isProd, options, body, settled, fetched, refs, idx, err, doc, imports,
                   entryInfo, bundle, ridx, router, store>>

Next ==
    \/ Fetch \/ ManifestWarn \/ ManifestCatch \/ MapManifest \/ Loop
    \/ Styles \/ Resolve \/ Skip \/ Import \/ Imported \/ Locales \/ Routes
    \/ Install \/ Record \/ Info \/ Caught

Spec == Init /\ [][Next]_vars

\* the statements between two awaits run to completion: a pass that is not
\* waiting for a promise takes its next step
Statements ==
    \/ ManifestWarn \/ ManifestCatch \/ MapManifest \/ Loop \/ Styles \/ Skip
    \/ Import \/ Locales \/ Routes \/ Install \/ Record \/ Info \/ Caught

\* the pass when the three awaited promises settle: the fetch of the
\* manifest, resolveEntry with the caller's resolver, and the import
SpecSettling ==
    /\ Init /\ [][Next]_vars
    /\ WF_vars(Statements)
    /\ WF_vars(Fetch) /\ WF_vars(Resolve) /\ WF_vars(Imported)

(***************************************************************************)
(* resolveEntry on its own: every combination of descriptors of a          *)
(* reference and of the options that reach the resolver.                   *)
(***************************************************************************)
ResolveRefs ==
    {Ref("admin", b, e, <<>>, d, s, p) :
        b \in {Absent, RelBase, RelBaseFile, AbsBase, BrokenUrl},
        e \in {Absent, RelEntry, HttpEntry},
        d \in {Absent, DevEntry},
        s \in {Absent, BareSpec, HttpSpec, FileSpec},
        p \in {"undef", "dev", "url", "spec"}}

ResolveOptions ==
    {Options(pd, ad, r, "name", "moduleName", FALSE, FALSE, FALSE, "none") :
        pd \in Tri, ad \in Tri, r \in BOOLEAN}

InitResolve ==
    /\ isProd \in BOOLEAN
    /\ options \in ResolveOptions
    /\ \E r \in ResolveRefs : body = Parsed(TRUE, <<r>>)
    /\ pc = "resolve"
    /\ fetched = "ok"
    /\ refs = body
    /\ idx = 1
    /\ result = [loaded |-> <<>>, errors |-> <<>>]
    /\ err = "none"
    /\ doc = <<>>
    /\ imports = <<>>
    /\ entryInfo = NoEntry
    /\ settled = NotAsked
    /\ bundle = NoBundle
    /\ ridx = 0
    /\ router = HostRouter
    /\ store = HostStore
    /\ calls = <<>>
    /\ outcome = "pending"
    /\ blobs = {}
    /\ pass = 1
    /\ first = NoSnapshot
    /\ served = <<>>

NextResolve == Resolve

SpecResolve == InitResolve /\ [][NextResolve]_vars

(***************************************************************************)
(* The locale step on its own: bundles with the locale trees the claims    *)
(* are about reach step 4 one after the other, under either strategy.      *)
(***************************************************************************)
MaxMerges == 2

Msg(k, s) == KV(k, VStr(s))

TitleTree == VObj(<<Msg(<<"title">>, "T")>>)

\* {"nav.home": "Home", "menu": {"x.y": "z"}, "list": [...]}
DottedTree ==
    VObj(<<Msg(<<"nav", "home">>, "Home"),
           KV(<<"menu">>, VObj(<<Msg(<<"x", "y">>, "z")>>)),
           KV(<<"list">>, VArr)>>)

\* {"a.b": "1", "a.c": "2"}
SiblingTree == VObj(<<Msg(<<"a", "b">>, "1"), Msg(<<"a", "c">>, "2")>>)

\* {"a": {"c": "2"}, "a.b": "1"}
PlainThenDottedTree ==
    VObj(<<KV(<<"a">>, VObj(<<Msg(<<"c">>, "2")>>)), Msg(<<"a", "b">>, "1")>>)

\* {"a.b": "1", "a": {"c": "2"}}
DottedThenPlainTree ==
    VObj(<<Msg(<<"a", "b">>, "1"), KV(<<"a">>, VObj(<<Msg(<<"c">>, "2")>>))>>)

\* {"a": "x", "a.b": "y"}
StringThenDottedTree == VObj(<<Msg(<<"a">>, "x"), Msg(<<"a", "b">>, "y")>>)

\* {"admin": {"title": "T", "nav.home": "Home"}}
WrappedTree ==
    VObj(<<KV(<<"admin">>,
              VObj(<<Msg(<<"title">>, "T"), Msg(<<"nav", "home">>, "Home")>>))>>)

\* {"__meta": "v1", "admin": {"title": "T"}}
WrappedMetaTree == VObj(<<Msg(<<"__meta">>, "v1"), KV(<<"admin">>, TitleTree)>>)

\* {"admin": {"title": "T"}, "other": "o"}
WrappedOtherTree == VObj(<<KV(<<"admin">>, TitleTree), Msg(<<"other">>, "o")>>)

\* {"admin": {"admin": {"title": "T"}}}
WrappedTwiceTree == VObj(<<KV(<<"admin">>, VObj(<<KV(<<"admin">>, TitleTree)>>))>>)

\* {"admin": "Admin"}
WrappedStringTree == VObj(<<Msg(<<"admin">>, "Admin")>>)

\* {"admin": null}
WrappedNullTree == VObj(<<KV(<<"admin">>, VNull)>>)

LocaleTrees ==
    {TitleTree, DottedTree, SiblingTree, PlainThenDottedTree, DottedThenPlainTree,
     StringThenDottedTree, WrappedTree, WrappedMetaTree, WrappedOtherTree,
     WrappedTwiceTree, WrappedStringTree, WrappedNullTree}

\* bundle.locales: one language, or two with the first one well behaved
LocaleSets ==
    {VObj(<<KV(<<"en">>, t)>>) : t \in LocaleTrees}
    \cup {VObj(<<KV(<<"de">>, TitleTree), KV(<<"en">>, t)>>) :
            t \in {DottedTree, StringThenDottedTree}}

LocaleBundles ==
    {Bundle(n, ns, l, FALSE, <<>>, FALSE) :
        n \in {"admin", "users"},
        ns \in {NsUndefined, NsNull, "", "admin"},
        l \in LocaleSets}

LocaleOptions ==
    {Options("undef", "undef", FALSE, "name", s, FALSE, FALSE, FALSE, "none") :
        s \in {"moduleName", "function"}}

\* the manifest names the modules differently from their bundles
LocaleRef == Ref("ref", RelBase, RelEntry, <<>>, Absent, Absent, "undef")

InitLocales ==
    /\ isProd = TRUE
    /\ options \in LocaleOptions
    /\ body = Parsed(TRUE, [i \in 1..MaxMerges |-> LocaleRef])
    /\ pc = "locales"
    /\ fetched = "ok"
    /\ refs = body
    /\ idx = 1
    /\ result = [loaded |-> <<>>, errors |-> <<>>]
    /\ err = "none"
    /\ doc = <<>>
    /\ imports = <<>>
    /\ entryInfo = Entry("url", NewURLBase(RelEntry, toAbsoluteBase(RelBase).v).v, FALSE)
    /\ settled = NotAsked
    /\ bundle \in LocaleBundles
    /\ ridx = 0
    /\ router = HostRouter
    /\ store = HostStore
    /\ calls = <<>>
    /\ outcome = "pending"
    /\ blobs = {}
    /\ pass = 1
    /\ first = NoSnapshot
    /\ served = <<>>

\* the bundle of the next reference reaches step 4
NextBundle ==
    /\ pc \in {"routes", "catch"}
    /\ idx < MaxMerges
    /\ idx' = idx + 1
    /\ bundle' \in LocaleBundles
    /\ pc' = "locales"
    /\ err' = "none"
    /\ UNCHANGED <<blobs, pass, first, served, isProd, options, body, settled, fetched, refs, result, doc,
                   imports, entryInfo, ridx, router, store, calls, outcome>>

NextLocales == Locales \/ NextBundle

SpecLocales == InitLocales /\ [][NextLocales]_vars

(***************************************************************************)
(* The route step on its own: every policy, several router states and      *)
(* candidate routes with and without a name, with every kind of path.      *)
(***************************************************************************)
MaxRoutes == 2

CandidateRoutes ==
    {Route(n, p, <<>>) : n \in {"", "home", "new"}, p \in {"", "/", "/new", "admin"}}
    \cup {Route("new", "/new", <<Route("new-child", "", <<>>)>>),
          Route("shell", "/shell", <<Route("home", "sub", <<>>)>>)}

\* getRoutes() of the host before the step: the home page, and with it a
\* route with an empty path, named and unnamed routes at /new, or a route
\* at /shell/sub
RouterStates ==
    {HostRouter,
     <<Rec("home", "/"), Rec("root", "")>>,
     <<Rec("home", "/"), Rec("", "/new")>>,
     <<Rec("other", "/new"), Rec("new", "/other")>>,
     <<Rec("home", "/"), Rec("sub", "/shell/sub")>>}

RouteBundles ==
    {Bundle("admin", NsUndefined, Undefined, TRUE, q, FALSE) :
        q \in SeqsUpTo(CandidateRoutes, MaxRoutes) \ {<<>>}}

RouteOptions ==
    {Options("undef", "undef", FALSE, g, "moduleName", FALSE, FALSE, FALSE, "none") :
        g \in {"name", "path", "false"}}

InitRoutes ==
    /\ isProd = TRUE
    /\ options \in RouteOptions
    /\ body = Parsed(TRUE, <<LocaleRef>>)
    /\ pc = "routes"
    /\ fetched = "ok"
    /\ refs = body
    /\ idx = 1
    /\ result = [loaded |-> <<>>, errors |-> <<>>]
    /\ err = "none"
    /\ doc = <<>>
    /\ imports = <<>>
    /\ entryInfo = Entry("url", NewURLBase(RelEntry, toAbsoluteBase(RelBase).v).v, FALSE)
    /\ settled = NotAsked
    /\ bundle \in RouteBundles
    /\ ridx = 0
    /\ router \in RouterStates
    /\ store = HostStore
    /\ calls = <<>>
    /\ outcome = "pending"
    /\ blobs = {}
    /\ pass = 1
    /\ first = NoSnapshot
    /\ served = <<>>

NextRoutes == Routes

SpecRoutes == InitRoutes /\ [][NextRoutes]_vars

(***************************************************************************)
(* loadSingleModule: one reference, written to an object URL that is the   *)
(* manifest of one pass.  The options have no mapManifest.                 *)
(***************************************************************************)
TmpManifestUrl == "blob:manifest"

\* JSON.parse(JSON.stringify(r)): strings and arrays of strings come back,
\* members that are undefined are left out, null stays null
JSONRoundTrip(r) ==
    IF r.isNull THEN NullRef
    ELSE Ref(r.name, r.baseUrl, r.entry, [i \in 1..Len(r.styles) |-> r.styles[i]],
             r.entryDev, r.spec, r.prefer)

SingleOptions == {o \in PassOptions : o.mapManifest = "none"}

InitSingle ==
    /\ isProd \in BOOLEAN
    /\ options \in SingleOptions
    /\ \E r \in ManifestRefs : body = Parsed(TRUE, <<r>>)
    /\ pc = "createObjectURL"
    /\ fetched = "pending"
    /\ refs = Parsed(TRUE, <<>>)
    /\ idx = 0
    /\ result = [loaded |-> <<>>, errors |-> <<>>]
    /\ err = "none"
    /\ doc = <<>>
    /\ imports = <<>>
    /\ entryInfo = NoEntry
    /\ settled = NotAsked
    /\ bundle = NoBundle
    /\ ridx = 0
    /\ router = HostRouter
    /\ store = HostStore
    /\ calls = <<>>
    /\ outcome = "pending"
    /\ blobs = {}
    /\ pass = 1
    /\ first = NoSnapshot
    /\ served = <<>>

\* const manifest = [ref]; URL.createObjectURL(new Blob([JSON.stringify(manifest)]))
CreateObjectURL ==
    /\ pc = "createObjectURL"
    /\ blobs' = blobs \cup {TmpManifestUrl}
    /\ body' = Parsed(TRUE, [i \in 1..Len(body.items) |-> JSONRoundTrip(body.items[i])])
    /\ pc' = "fetch"
    /\ UNCHANGED <<pass, first, served, isProd, options, settled, fetched, refs, idx, result, err, doc,
                   imports, entryInfo, bundle, ridx, router, store, calls, outcome>>

\* the await of the pass has returned: URL.revokeObjectURL(tmpManifestUrl); return res
RevokeObjectURL ==
    /\ pc = "done" /\ outcome = "returned"
    /\ blobs' = blobs \ {TmpManifestUrl}
    /\ pc' = "return"
    /\ UNCHANGED <<pass, first, served, isProd, options, body, settled, fetched, refs, idx, result, err,
                   doc, imports, entryInfo, bundle, ridx, router, store, calls,
                   outcome>>

\* the response of an object URL is always ok: the warning branch is not taken
NextSingle ==
    \/ CreateObjectURL
    \/ Fetch \/ ManifestCatch \/ MapManifest \/ Loop
    \/ Styles \/ Resolve \/ Skip \/ Import \/ Imported \/ Locales \/ Routes
    \/ Install \/ Record \/ Info \/ Caught
    \/ RevokeObjectURL

SpecSingle == InitSingle /\ [][NextSingle]_vars

(***************************************************************************)
(* Two passes over the same manifest, as with a build-time loader and the  *)
(* remote loader side by side: the policy is "name", log is the default    *)
(* one, the manifest was fetched, and each import settles to the same      *)
(* module in both passes.                                                  *)
(***************************************************************************)
MaxPassEntries == 2

\* three named top-level routes: the second has the name of the child of the
\* first, and the child of the third has the name of the first
NestBundle ==
    Bundle("docs", NsUndefined,
           VObj(<<KV(<<"en">>, VObj(<<KV(<<"title">>, VStr("Docs"))>>))>>), TRUE,
           <<Route("docs", "/docs", <<Route("docs-page", "page", <<>>)>>),
             Route("docs-page", "/page", <<>>),
             Route("help", "/help", <<Route("docs", "docs", <<>>)>>)>>, FALSE)

TwiceModules ==
    {Module(FALSE, FALSE, NoBundle)}
    \cup {Module(TRUE, TRUE, b) : b \in {AdminBundle, ShopBundle, BlogBundle, NestBundle}}

TwiceRefs == {AdminRef, EmptyRef}

TwiceOptions ==
    Options("undef", "undef", FALSE, "name", "moduleName", FALSE, FALSE, FALSE, "none")

InitTwice ==
    /\ isProd \in BOOLEAN
    /\ options = TwiceOptions
    /\ \E n \in 1..MaxPassEntries :
           /\ body \in {Parsed(TRUE, q) : q \in [1..n -> TwiceRefs]}
           /\ served \in [1..n -> TwiceModules]
    /\ pc = "map"
    /\ fetched = "ok"
    /\ refs = body
    /\ idx = 0
    /\ result = [loaded |-> <<>>, errors |-> <<>>]
    /\ err = "none"
    /\ doc = <<>>
    /\ imports = <<>>
    /\ entryInfo = NoEntry
    /\ settled = NotAsked
    /\ bundle = NoBundle
    /\ ridx = 0
    /\ router = HostRouter
    /\ store = HostStore
    /\ calls = <<>>
    /\ outcome = "pending"
    /\ blobs = {}
    /\ pass = 1
    /\ first = NoSnapshot

\* the caller calls loadRemoteModules again with the same options
Again ==
    /\ pc = "done" /\ pass = 1
    /\ pass' = 2
    /\ first' = [router |-> router, store |-> store]
    /\ pc' = "map"
    /\ refs' = body
    /\ idx' = 0
    /\ result' = [loaded |-> <<>>, errors |-> <<>>]
    /\ err' = "none"
    /\ entryInfo' = NoEntry
    /\ settled' = NotAsked
    /\ bundle' = NoBundle
    /\ ridx' = 0
    /\ outcome' = "pending"
    /\ UNCHANGED <<isProd, options, body, fetched, doc, imports, router, store,
                   calls, blobs, served>>

NextTwice ==
    \/ MapManifest \/ Loop
    \/ Styles \/ Resolve \/ Skip \/ Import \/ Imported \/ Locales \/ Routes
    \/ Install \/ Record \/ Info \/ Caught
    \/ Again

SpecTwice == InitTwice /\ [][NextTwice]_vars

(***************************************************************************)
(* Properties.                                                             *)
(***************************************************************************)
\* resolveEntry has just settled for the reference in work
resolvedNow == pc \in {"import", "skip"} \/ (pc = "catch" /\ err = "resolve")

\* the development preference in force: the option, or "not in production"
devPreferred == Nullish(options.preferDevEntries, ~isProd)

\* development sources are allowed unless the option forbids them
devAllowed == options.allowDevEntryInProd # "false"

hasDev == Truthy(ref.entryDev)

hasPair == Truthy(ref.baseUrl) /\ Truthy(ref.entry)

hasSpec == Truthy(ref.spec)

\* a base as an absolute URL: as it is if it is absolute, else against the origin
absoluteBase(b) == IF NewURL(b).ok THEN NewURL(b) ELSE NewURLBase(b, WindowOrigin)

C6_PreferTagHonoured ==
    resolvedNow =>
        /\ (ref.prefer = "dev" /\ hasDev) => entryInfo.kind = "dev"
        /\ (ref.prefer = "url" /\ hasPair) =>
               entryInfo.kind = "url" \/ entryInfo.status = "raise"
        /\ (ref.prefer = "spec" /\ hasSpec) =>
               entryInfo.kind = "spec" \/ entryInfo.status = "raise"

\* C7: in production no reference is resolved to the development source
\* unless allowDevEntryInProd is true, whatever preferDevEntries is.
C7_NoDevInProdUnlessAllowed ==
    (resolvedNow /\ isProd /\ options.allowDevEntryInProd # "true") =>
        entryInfo.kind # "dev"

\* the development source is chosen: preferred, allowed and present
devChosen == devPreferred /\ devAllowed /\ hasDev

\* C8: when the development source is not chosen and the pre-built pair is
\* present, the resolver returns kind url, whatever the specifier is; a full
\* http(s) entry is returned unchanged whatever the base is, any other entry
\* is resolved against the absolute base.
C8_PrebuiltAddress ==
    (resolvedNow /\ ~devChosen /\ hasPair) =>
        IF IsHttp(ref.entry)
        THEN entryInfo = Entry("url", ref.entry, FALSE)
        ELSE absoluteBase(ref.baseUrl).ok =>
                entryInfo = Entry("url",
                    NewURLBase(ref.entry, absoluteBase(ref.baseUrl).v).v, FALSE)

\* C9: when neither the development source nor the pre-built pair is used
\* and a specifier is present, the resolver returns kind spec: the specifier
\* itself if it is a full http(s) address, without calling resolveSpecifier;
\* else what the supplied resolveSpecifier settles to (raising if it
\* rejects); else, with no resolveSpecifier, the bare specifier.
C9_SpecifierAddress ==
    (resolvedNow /\ ~devChosen /\ ~hasPair /\ hasSpec) =>
        IF IsHttp(ref.spec)
        THEN entryInfo = Entry("spec", ref.spec, FALSE) /\ ~settled.called
        ELSE IF options.resolveSpecifier
        THEN /\ settled.called
             /\ IF settled.ok
                THEN /\ entryInfo.status = "ok"
                     /\ entryInfo.kind = "spec"
                     /\ entryInfo.source = settled.v
                ELSE entryInfo.status = "raise"
        ELSE entryInfo = Entry("spec", ref.spec, FALSE) /\ ~settled.called

\* a full http(s) specifier was returned as it is although a resolveSpecifier
\* was supplied
C9_Witness ==
    /\ resolvedNow /\ ~devChosen /\ ~hasPair
    /\ IsHttp(ref.spec) /\ options.resolveSpecifier
    /\ entryInfo.kind = "spec"

\* the hrefs of the stylesheets a reference lists, against its absolute base
styleHrefs(r) ==
    {NewURLBase(r.styles[k], absoluteBase(r.baseUrl).v).v : k \in 1..Len(r.styles)}

attached == {doc[k] : k \in 1..Len(doc)}

\* C10: whenever the import of a reference has started, every stylesheet its
\* pre-built descriptor lists has been attached to the document.
C10_StylesBeforeImport ==
    \A k \in 1..Len(imports) :
        LET r == refs.items[imports[k].ref]
        IN  Truthy(r.baseUrl) => styleHrefs(r) \subseteq attached

\* the import of a reference with two stylesheets has started
C10_Witness ==
    \E k \in 1..Len(imports) :
        /\ Truthy(refs.items[imports[k].ref].baseUrl)
        /\ Len(refs.items[imports[k].ref].styles) >= 2

\* the steps of a reference that can raise
stepErrors ==
    {"styles", "resolve", "import", "validate", "locales", "routes", "install"}

errorsOf(i) == {k \in 1..Len(result.errors) : result.errors[k].ref = i}

loadedOf(i) == {k \in 1..Len(result.loaded) : result.loaded[k].ref = i}

importsOf(i) == {k \in 1..Len(imports) : imports[k].ref = i}

calledFor(fn, i) == \E k \in 1..Len(calls) : calls[k].fn = fn /\ calls[k].ref = i

\* C1: a reference one of whose steps raised gets exactly one error record,
\* onModuleError is called for it if supplied, and the pass goes on to every
\* later reference: it does not end before the last one was taken up.
C1_FailureIsolated ==
    /\ (idx > 0 /\ err \in stepErrors /\ pc # "catch") =>
           \E k \in errorsOf(idx) : result.errors[k].error = err
    /\ \A k \in 1..Len(result.errors) :
           result.errors[k].error \in stepErrors =>
               /\ Cardinality(errorsOf(result.errors[k].ref)) = 1
               /\ options.onModuleError =>
                      calledFor("onModuleError", result.errors[k].ref)
               /\ pc = "done" => idx = Len(refs.items)

\* C2: a pass never ends by raising to its caller.
C2_AlwaysReturns == pc = "done" => outcome = "returned"

\* C3: when the manifest cannot be had (status not ok, fetch rejected, body
\* not JSON) the pass returns an empty LoadResult and takes no step of any
\* reference: no stylesheet, no import, router and store as before, no
\* callback.
C3_ManifestFailureEmpty ==
    fetched \in {"notok", "reject", "badjson"} =>
        /\ pc \in {"manifestWarn", "manifestCatch", "done"}
        /\ result = [loaded |-> <<>>, errors |-> <<>>]
        /\ doc = <<>> /\ imports = <<>> /\ calls = <<>>
        /\ router = HostRouter /\ store = HostStore
        /\ pc = "done" => outcome = "returned"

\* a reference with no development source, no complete pre-built pair and
\* no specifier
noDescriptor(r) ==
    ~r.isNull /\ ~Truthy(r.entryDev) /\ ~Truthy(r.spec)
    /\ ~(Truthy(r.baseUrl) /\ Truthy(r.entry))

\* C4: a reference without any entry descriptor, whatever its base location
\* and stylesheets, resolves to none, gets no error record, no loaded record
\* and no import, and the pass continues after it.
C4_NoDescriptorSkipped ==
    \A i \in 1..Len(refs.items) :
        noDescriptor(refs.items[i]) =>
            /\ (idx = i /\ resolvedNow) => entryInfo = NoEntry
            /\ errorsOf(i) = {} /\ loadedOf(i) = {} /\ importsOf(i) = {}
            /\ (idx = i /\ pc = "done") =>
                   outcome = "returned" /\ i = Len(refs.items)

validateErrors == {k \in 1..Len(result.errors) : result.errors[k].error = "validate"}

\* C11: the steps after the validation run only with a bundle that has a
\* name; a reference whose import gave no default export or a default export
\* with an empty name gets exactly one error record, no loaded record, no
\* install call and no onModuleLoaded call, none of its later steps is
\* taken, and the pass goes on to the references after it.
C11_InvalidBundleIsolated ==
    /\ pc \in {"locales", "routes", "install", "record", "info"} => bundle.name # ""
    /\ \A k \in validateErrors :
           LET i == result.errors[k].ref
           IN  /\ Cardinality(errorsOf(i)) = 1
               /\ loadedOf(i) = {}
               /\ ~calledFor("install", i) /\ ~calledFor("onModuleLoaded", i)
               /\ idx = i => pc \in {"loop", "done"}
               /\ pc = "done" => idx = Len(refs.items)

RECURSIVE At(_, _)
RECURSIVE Within(_, _)
RECURSIVE Preserved(_, _, _)

\* the value at a path of keys, Undefined where the path leaves the mappings
At(obj, path) ==
    IF path = <<>> THEN obj
    ELSE IF obj.t # "obj" THEN Undefined
    ELSE At(Get(obj, <<Head(path)>>), Tail(path))

\* every entry of tree is in sub, mappings compared entry by entry
Within(tree, sub) ==
    \A i \in 1..Len(tree.e) :
        LET kv == tree.e[i]
        IN  IF isPlainObject(kv.v)
            THEN isPlainObject(Get(sub, kv.k)) /\ Within(kv.v, Get(sub, kv.k))
            ELSE Get(sub, kv.k) = kv.v

\* every key of old that tree does not have is in new with its old value,
\* at every level where old and tree both hold a mapping
Preserved(old, new, tree) ==
    \A i \in 1..Len(old.e) :
        LET kv == old.e[i]
        IN  IF ~Has(tree, kv.k) THEN Get(new, kv.k) = kv.v
            ELSE (isPlainObject(kv.v) /\ isPlainObject(Get(tree, kv.k))) =>
                     Preserved(kv.v, Get(new, kv.k), Get(tree, kv.k))

\* the namespace of the bundle in work
nsInWork == resolvedNamespace(bundle, options.i18nNamespaceStrategy)

\* what mergeLocales makes of the value of one language before it hands it
\* to the store: [ok, v]
handed(namespace, msgs) ==
    LET normalized == normalizeLocale(namespace, msgs)
    IN  IF normalized.t = "obj" THEN expandDottedKeys(normalized)
        ELSE IF normalized.t = "null" THEN RaiseV
        ELSE OkV(normalized)

\* the message the store receives for one language: under the namespace, or
\* at the root; an empty mapping if there is none
message(namespace, msgs) ==
    LET h == handed(namespace, msgs)
    IN  IF ~h.ok THEN VObj(<<>>)
        ELSE IF isNamedNamespace(namespace) THEN VObj(<<KV(<<namespace>>, h.v)>>)
        ELSE h.v

\* the message for a language of the store in the bundle in work
messageFor(lang) ==
    IF Has(bundle.locales, lang)
    THEN message(nsInWork, Get(bundle.locales, lang))
    ELSE VObj(<<>>)

\* the tree merged into the namespace for a language: what was handed if
\* it is a mapping, else a tree without keys
treeFor(lang) ==
    LET h == IF Has(bundle.locales, lang)
             THEN handed(nsInWork, Get(bundle.locales, lang)) ELSE RaiseV
    IN  IF h.ok /\ isPlainObject(h.v) THEN h.v ELSE VObj(<<>>)

\* C12: a locale merge is not destructive: in every language every key of
\* the store that the merged tree does not have keeps its value, at the
\* root and under the namespace merged into, and after a merge that
\* returned every key of the merged tree is in the store, so that two
\* merges of different keys into one namespace leave both there.
C12_MergeKeepsKeys ==
    [][(pc = "locales" /\ isTruthy(bundle.locales)) =>
          /\ \A i \in 1..Len(store.e) :
                 LET lang == store.e[i].k
                     old == store.e[i].v
                     new == Get(store', lang)
                 IN  /\ Preserved(old, new, messageFor(lang))
                     /\ (isNamedNamespace(nsInWork)
                            /\ isPlainObject(Get(old, <<nsInWork>>))) =>
                           Preserved(Get(old, <<nsInWork>>), Get(new, <<nsInWork>>),
                                     treeFor(lang))
          /\ pc' = "routes" =>
                 \A j \in 1..Len(bundle.locales.e) :
                     Within(messageFor(bundle.locales.e[j].k),
                            Get(store', bundle.locales.e[j].k))]_vars

RECURSIVE Nested(_, _)
RECURSIVE NoDots(_)

\* every key of tree, dotted or not, leads in expanded along its segments to
\* its value, the values that are mappings being compared in the same way
Nested(tree, expanded) ==
    \A i \in 1..Len(tree.e) :
        LET kv == tree.e[i]
            x == At(expanded, kv.k)
        IN  IF isPlainObject(kv.v)
            THEN isPlainObject(x) /\ Nested(kv.v, x)
            ELSE x = kv.v

\* no key of a mapping has a dot, arrays apart
NoDots(v) ==
    \A i \in 1..Len(v.e) :
        Len(v.e[i].k) = 1 /\ (isPlainObject(v.e[i].v) => NoDots(v.e[i].v))

\* the locale step of the bundle in work has returned
mergedNow == pc = "routes" /\ isTruthy(bundle.locales)

\* C13: in the tree mergeLocales hands to the store for a language, every
\* dotted key of the (unwrapped) input, at the top or inside a mapping, has
\* its value at the nested path of its segments, and no key has a dot.
C13_DottedKeysNested ==
    mergedNow =>
        \A j \in 1..Len(bundle.locales.e) :
            LET normalized == normalizeLocale(nsInWork, bundle.locales.e[j].v)
                h == handed(nsInWork, bundle.locales.e[j].v)
            IN  isPlainObject(normalized) =>
                    /\ h.ok
                    /\ NoDots(h.v)
                    /\ Nested(normalized, h.v)

\* the locale step of the bundle in work has raised
mergeRaised == pc = "catch" /\ err = "locales"

\* C14: mergeLocales does not raise, whatever the locale tree and the
\* namespace.
C14_MergeNeverRaises == ~mergeRaised

\* the only key of raw not starting with "__" is ns
onlyNs(raw, ns) ==
    /\ Has(raw, <<ns>>)
    /\ \A i \in 1..Len(raw.e) : raw.e[i].k = <<ns>> \/ isMetaKey(raw.e[i].k)

\* C15: a merge under a non-empty namespace ns that returns puts, for a
\* per-language value whose only substantive key is ns, the (expanded)
\* value of that key at store[lang][ns], one level unwrapped, and adds
\* nothing at store[lang][ns][ns]; for a per-language value with another
\* substantive key it puts the whole (expanded) value at store[lang][ns].
C15_UnwrapOneLevel ==
    [][(pc = "locales" /\ pc' = "routes" /\ isTruthy(bundle.locales)
          /\ isNamedNamespace(nsInWork)) =>
          \A j \in 1..Len(bundle.locales.e) :
              LET lang == bundle.locales.e[j].k
                  raw == bundle.locales.e[j].v
                  ns == nsInWork
                  inner == Get(raw, <<ns>>)
                  sub == At(store', lang \o <<ns>>)
              IN  IF onlyNs(raw, ns)
                  THEN IF isPlainObject(inner)
                       THEN /\ Within(expandDottedKeys(inner).v, sub)
                            /\ ~Has(inner, <<ns>>) =>
                                   At(store', lang \o <<ns, ns>>)
                                       = At(store, lang \o <<ns, ns>>)
                       ELSE sub = inner
                  ELSE Within(expandDottedKeys(raw).v, sub)]_vars

\* a tree wrapped in the namespace admin was merged under admin: its
\* messages are one level below the namespace, not two
C15_Witness ==
    /\ mergedNow /\ nsInWork = "admin"
    /\ Get(bundle.locales, <<"en">>) = WrappedTree
    /\ At(store, <<"en", "admin", "title">>) = VStr("T")
    /\ At(store, <<"en", "admin", "admin">>) = Undefined

\* what the configured strategy makes of a bundle
strategyNs(b) ==
    IF options.i18nNamespaceStrategy = "moduleName" THEN b.name ELSE NsFn(b.name)

\* the namespace C16 requires: the bundle's own unless it is undefined
ownNs(b) == IF b.i18nNamespace # NsUndefined THEN b.i18nNamespace ELSE strategyNs(b)

\* C16: a locale step that returns merges every language of the bundle
\* under the bundle's own i18nNamespace if that is not undefined (at the
\* root for null and ""), and under what the strategy gives only if it is
\* undefined; under the module name and under the strategy's name nothing
\* changes unless that is where the messages belong.
C16_OwnNamespaceFirst ==
    [][(pc = "locales" /\ pc' = "routes" /\ isTruthy(bundle.locales)) =>
          \A j \in 1..Len(bundle.locales.e) :
              LET lang == bundle.locales.e[j].k
                  msg == message(ownNs(bundle), bundle.locales.e[j].v)
              IN  /\ Within(msg, At(store', lang))
                  /\ \A c \in {bundle.name, NsFn(bundle.name)} :
                         ~Has(msg, <<c>>) =>
                             At(store', lang \o <<c>>) = At(store, lang \o <<c>>)]_vars

\* a bundle with i18nNamespace null has its title at the root of the English
\* messages and nothing under its name
C16_Witness ==
    /\ mergedNow /\ bundle.i18nNamespace = NsNull
    /\ Get(bundle.locales, <<"en">>) = TitleTree
    /\ At(store, <<"en", "title">>) = VStr("T")
    /\ At(store, <<"en", bundle.name>>) = Undefined

\* C17: with the strategy "moduleName" a locale step that returns nests the
\* messages of a bundle without i18nNamespace under the name of the bundle,
\* and writes nothing under the name of the reference when the two differ.
C17_BundleNameIsNamespace ==
    [][(pc = "locales" /\ pc' = "routes" /\ isTruthy(bundle.locales)
          /\ options.i18nNamespaceStrategy = "moduleName"
          /\ bundle.i18nNamespace = NsUndefined) =>
          \A j \in 1..Len(bundle.locales.e) :
              LET lang == bundle.locales.e[j].k
                  msg == message(bundle.name, bundle.locales.e[j].v)
              IN  /\ Has(msg, <<bundle.name>>)
                  /\ Within(msg, At(store', lang))
                  /\ ref.name # bundle.name =>
                         At(store', lang \o <<ref.name>>)
                             = At(store, lang \o <<ref.name>>)]_vars

\* the module the manifest calls ref has its title under users, the name of
\* its bundle
C17_Witness ==
    /\ mergedNow /\ options.i18nNamespaceStrategy = "moduleName"
    /\ bundle.i18nNamespace = NsUndefined
    /\ bundle.name = "users" /\ ref.name = "ref"
    /\ At(store, <<"en", "users", "title">>) = VStr("T")
    /\ At(store, <<"en", "ref">>) = Undefined

\* a candidate route of the bundle is in work in the route step
routeInWork == pc = "routes" /\ bundle.hasRoutes /\ ridx < Len(bundle.routes)

candidate == bundle.routes[ridx + 1]

nameRegistered(name) == \E i \in 1..Len(router) : router[i].name = name

pathRegistered(path) == \E i \in 1..Len(router) : router[i].path = path

\* the step has left the route table as it was
routeSkipped == router' = router

\* the step has called addRoute for the candidate: the router has its
\* record, or has refused its path
routeAdded ==
    IF candidate.path \in BadPaths
    THEN pc' = "catch" /\ err' = "routes" /\ router' = router
    ELSE \E i \in 1..Len(router') :
             router'[i] = Rec(candidate.name, candidate.path)

\* C18: under the policy "name" a candidate whose name is registered is
\* skipped, a candidate without a name is skipped whenever a registered
\* route has its path, and every other candidate is added.
C18_NamePolicy ==
    [][(routeInWork /\ options.guardDuplicateRoutes = "name") =>
          IF candidate.name # "" /\ nameRegistered(candidate.name) THEN routeSkipped
          ELSE IF candidate.name = "" /\ pathRegistered(candidate.path) THEN routeSkipped
          ELSE routeAdded]_vars

\* C19: under the policy "path" a candidate, whatever its name and its path,
\* is skipped if and only if a registered route has its path; with the
\* policy disabled every candidate is added.
C19_PathPolicy ==
    [][routeInWork =>
          /\ options.guardDuplicateRoutes = "path" =>
                 IF pathRegistered(candidate.path) THEN routeSkipped ELSE routeAdded
          /\ options.guardDuplicateRoutes = "false" => routeAdded]_vars

\* the install hook of the bundle in work has just been called
installedNow ==
    /\ bundle.install
    /\ pc = "record" \/ (pc = "catch" /\ err = "install")

lastCall == calls[Len(calls)]

\* every language of the bundle in work is merged in the store st
localesVisible(st) ==
    isTruthy(bundle.locales) =>
        \A j \in 1..Len(bundle.locales.e) :
            Within(message(nsInWork, bundle.locales.e[j].v),
                   At(st, bundle.locales.e[j].k))

\* every route of the bundle in work is in the route table rt: its own
\* record, or the registered route of its name or path that made it a
\* duplicate
routesVisible(rt) ==
    bundle.hasRoutes =>
        \A n \in 1..Len(bundle.routes) :
            \E i \in 1..Len(rt) :
                \/ rt[i] = Rec(bundle.routes[n].name, bundle.routes[n].path)
                \/ bundle.routes[n].name # "" /\ rt[i].name = bundle.routes[n].name
                \/ bundle.routes[n].name = "" /\ rt[i].path = bundle.routes[n].path

\* C20: the install hook of a bundle is not called before the locale step
\* and the route step of that bundle are over; when it is called it is
\* handed the router and the locale store of the host, with all languages
\* of the bundle merged and all its routes registered.
C20_InstallAfterRoutesAndLocales ==
    /\ (idx > 0 /\ pc \in {"styles", "resolve", "skip", "import", "importing",
                          "locales", "routes", "install"}) =>
           ~calledFor("install", idx)
    /\ installedNow =>
           /\ lastCall.fn = "install" /\ lastCall.ref = idx
           /\ lastCall.router = router /\ lastCall.store = store
           /\ localesVisible(lastCall.store)
           /\ routesVisible(lastCall.router)

\* the install hook of the admin bundle has run with its route in the router
\* and its German title in the store
C20_Witness ==
    /\ installedNow /\ bundle = AdminBundle
    /\ lastCall.fn = "install"
    /\ \E i \in 1..Len(lastCall.router) : lastCall.router[i].name = "admin-index"
    /\ At(lastCall.store, <<"de", "admin", "title">>) = VStr("Verwaltung")

\* the first n routes of the bundle in work are in the route table rt
routesVisibleUpTo(rt, n) ==
    \A m \in 1..n :
        \E i \in 1..Len(rt) :
            \/ rt[i] = Rec(bundle.routes[m].name, bundle.routes[m].path)
            \/ bundle.routes[m].name # "" /\ rt[i].name = bundle.routes[m].name
            \/ bundle.routes[m].name = "" /\ rt[i].path = bundle.routes[m].path

\* the route step or the install hook of the reference in work has raised
lateFailure == idx > 0 /\ err \in {"routes", "install"}

\* C21: when the install hook of a bundle, or the registration of one of
\* its routes, raises, the reference gets an error record and no loaded
\* record, and what was merged and registered for the bundle before stays:
\* all its languages, and its routes up to the failing one (all of them for
\* the install hook).
C21_NoRollback ==
    lateFailure =>
        /\ loadedOf(idx) = {}
        /\ pc # "catch" => \E k \in errorsOf(idx) : result.errors[k].error = err
        /\ localesVisible(store)
        /\ routesVisibleUpTo(router, ridx)
        /\ err = "install" => ridx = Len(bundle.routes) /\ routesVisible(router)

\* the install hook of the admin bundle has raised and the error is
\* recorded; its route and its German title are still there
C21_Witness ==
    /\ lateFailure /\ err = "install" /\ pc \in {"loop", "done"}
    /\ bundle = AdminBundle /\ errorsOf(idx) # {}
    /\ \E i \in 1..Len(router) : router[i].name = "admin-index"
    /\ At(store, <<"de", "admin", "title">>) = VStr("Verwaltung")

\* the third route of the blog bundle was refused after its messages were
\* merged and its first route registered: both are still there
C21_WitnessRoutes ==
    /\ lateFailure /\ err = "routes" /\ pc \in {"loop", "done"}
    /\ bundle = BlogBundle /\ errorsOf(idx) # {}
    /\ \E i \in 1..Len(router) : router[i].name = "blog-index"
    /\ At(store, <<"en", "blog">>) = VStr("Blog")

\* the references of a sequence of records never go back
inOrder(q) == \A k \in 1..(Len(q) - 1) : q[k].ref <= q[k + 1].ref

upTo(q, i) == \A k \in 1..Len(q) : q[k].ref <= i

\* a reference is at its end: loaded, failed, or skipped for want of a
\* descriptor
terminal(i) ==
    errorsOf(i) # {} \/ loadedOf(i) # {} \/ noDescriptor(refs.items[i])

\* C22: the references are processed one after the other in the order of
\* the manifest: imports, hook and callback calls, loaded and error records
\* are in that order, none of them is for a reference after the one in
\* work, and every reference before the one in work is at its end.
C22_Sequential ==
    /\ inOrder(imports) /\ inOrder(calls)
    /\ inOrder(result.loaded) /\ inOrder(result.errors)
    /\ upTo(imports, idx) /\ upTo(calls, idx)
    /\ upTo(result.loaded, idx) /\ upTo(result.errors, idx)
    /\ \A i \in 1..(idx - 1) : terminal(i)

\* the second reference is being imported after the first was loaded
C22_Witness ==
    /\ idx = 2 /\ pc = "importing"
    /\ loadedOf(1) # {} /\ importsOf(1) # {} /\ importsOf(2) # {}

\* the transform, if any, has returned and the loop over refs has begun
mapped == fetched = "ok" /\ body.iterable /\ pc \notin {"fetch", "map"} /\ idx > 0

\* the entries of the parsed manifest the README's filter lets through
kept == SelectSeq(body.items, LAMBDA x : x.name # "admin")

adminSources ==
    {DevEntry, NewURLBase(RelEntry, absoluteBase(RelBase).v).v}

\* C23: the references the pass works on are those the transform returned,
\* in its order: the parsed manifest without a transform, its reverse for a
\* reversing transform, and for the README's filter the entries not named
\* admin, so that no stylesheet of the admin entry is attached and none of
\* its sources imported; records exist only for those references, and
\* before the transform has returned nothing is processed.
C23_TransformDecides ==
    /\ mapped =>
           /\ options.mapManifest = "none" => refs = body
           /\ options.mapManifest = "reverse" =>
                  /\ Len(refs.items) = Len(body.items)
                  /\ \A i \in 1..Len(body.items) :
                         refs.items[i] = body.items[Len(body.items) + 1 - i]
           /\ options.mapManifest = "filter" =>
                  /\ refs.items = kept
                  /\ \A k \in 1..Len(imports) : imports[k].source \notin adminSources
                  /\ NewURLBase(ThemeCss, absoluteBase(RelBase).v).v \notin attached
           /\ idx <= Len(refs.items)
           /\ (pc = "done" /\ outcome = "returned") => idx = Len(refs.items)
    /\ idx = 0 =>
           /\ doc = <<>> /\ imports = <<>>
           /\ result = [loaded |-> <<>>, errors |-> <<>>]

\* the admin entry of the manifest was filtered out and the shop entry after
\* it is being imported as the first reference
C23_Witness ==
    /\ mapped /\ options.mapManifest = "filter"
    /\ body.items = <<AdminRef, ShopRef>> /\ refs.items = <<ShopRef>>
    /\ idx = 1 /\ pc = "importing"

\* loadSingleModule has completed: it returned the result of the pass, or
\* the promise of the pass rejected and so did its own
singleCompleted == pc = "return" \/ (pc = "done" /\ outcome = "rejected")

\* the pass over the temporary manifest has begun and has not finished
singlePassRunning == pc \notin {"createObjectURL", "return", "done"}

\* C24: loadSingleModule makes one object URL holding exactly the given
\* reference and runs one pass over it; the URL is live for as long as the
\* pass runs, and it has been revoked whenever loadSingleModule has
\* completed, whether the pass returned or raised.
C24_TemporaryManifestReleased ==
    /\ blobs \subseteq {TmpManifestUrl}
    /\ Len(body.items) = 1
    /\ singlePassRunning => TmpManifestUrl \in blobs
    /\ singleCompleted => blobs = {}

\* C25: each reference is handled once and gets at most one record: none is
\* both in loaded and in errors, none is twice in either, its import is
\* attempted at most once, and loaded and errors together are no longer
\* than the list of references; also when onModuleLoaded or log raises
\* after the reference was recorded as loaded.
C25_AtMostOneRecord ==
    /\ \A i \in 1..Len(refs.items) :
           /\ Cardinality(loadedOf(i)) + Cardinality(errorsOf(i)) <= 1
           /\ Cardinality(importsOf(i)) <= 1
    /\ Len(result.loaded) + Len(result.errors) <= Len(refs.items)

\* the pass waits for the manifest, for resolveEntry or for an import
awaiting == pc \in {"fetch", "resolve", "importing"}

\* C26: when the fetch of the manifest, every resolution and every import
\* settle, the pass eventually returns and every reference is then at its
\* end: loaded, failed or skipped; and while one of them has not settled
\* the pass has not returned and can take no other step than that
\* settlement, so that no later reference is taken up.
C26_SettlingPassReturns ==
    /\ [](awaiting => (outcome = "pending" /\ ~ENABLED Statements))
    /\ <>(/\ pc = "done" /\ outcome = "returned"
          /\ \A i \in 1..Len(refs.items) : terminal(i))

\* the guard "name" finds the candidate registered in the router as it is now
duplicateNow ==
    \/ candidate.name # "" /\ nameRegistered(candidate.name)
    \/ candidate.name = "" /\ candidate.path # "" /\ pathRegistered(candidate.path)

\* the step has called router.addRoute: the table has changed or the router
\* has refused the path
addRouteCalled == router' # router \/ (pc' = "catch" /\ err' = "routes")

\* the next route of the bundle gets its turn
nextRouteInTurn == pc' = "routes" /\ ridx' = ridx + 1

C27_WitnessEarlierEntry ==
    /\ pc = "routes" /\ idx = 2 /\ ridx = 1 /\ bundle = BlogBundle
    /\ loadedOf(1) # {}
    /\ router = addRoute(HostRouter, bundle.routes[1]).v

\* the path of the record of a child: relative to the path of its parent
childPath(parent, c) == IF c.path = "" THEN parent ELSE parent \o "/" \o c.path

\* the policy, applied to the name and the path of the candidate itself,
\* lets it through
topLevelPasses ==
    IF options.guardDuplicateRoutes = "name"
    THEN IF candidate.name # "" THEN ~nameRegistered(candidate.name)
         ELSE ~pathRegistered(candidate.path)
    ELSE IF options.guardDuplicateRoutes = "path"
    THEN ~pathRegistered(candidate.path)
    ELSE TRUE

\* every child of the candidate has its record in the table after the step
childrenAdded ==
    \A k \in 1..Len(candidate.children) :
        \E i \in 1..Len(router') :
            /\ router'[i].name = candidate.children[k].name
            /\ router'[i].path = childPath(candidate.path, candidate.children[k])

\* a child of the candidate has the name or the path of a registered route
childRegistered ==
    \E k \in 1..Len(candidate.children) :
        \/ nameRegistered(candidate.children[k].name)
        \/ pathRegistered(childPath(candidate.path, candidate.children[k]))

\* C28: the guard looks at the top-level routes only: a candidate that
\* passes the policy with its own name and path is handed to addRoute
\* whole, in one call, and its children are registered with it even when a
\* child has the name or the path of a registered route; whenever the table
\* changes it is by that one call, and the children are never left out.
C28_ChildrenNotGuarded ==
    [][routeInWork =>
          /\ (topLevelPasses /\ candidate.path \notin BadPaths) =>
                 /\ routeAdded /\ childrenAdded
                 /\ router' = addRoute(router, candidate).v
          /\ router' # router => (routeAdded /\ childrenAdded)]_vars

\* a route was added whose child has the name of a route of the host and
\* the path of another: the child's record is in the table
C28_Witness ==
    /\ pc \in {"routes", "install"} /\ ridx = 1
    /\ bundle.routes[1] = Route("shell", "/shell", <<Route("home", "sub", <<>>)>>)
    /\ \E i, j \in 1..Len(router) :
           /\ router[i].name = "home" /\ router[i].path = "/shell/sub"
           /\ router[j].name = "sub" /\ router[j].path = "/shell/sub"
    /\ hasRoute(router, "shell")

====
